---- MODULE Spec2Model ----
(***************************************************************************)
(* Model of the NFTViewer React component                                  *)
(* (src/nft-viewer/src/components/NFTViewer.jsx).                          *)
(*                                                                         *)
(* JavaScript strings are modelled as sequences of one-character strings,  *)
(* so that startsWith, includes, replace and the render regexes are        *)
(* computed character by character.  The empty string '' is << >>.         *)
(***************************************************************************)
EXTENDS Integers, Sequences, FiniteSets, TLC

VARIABLES
    props,          \* the component's input props (metadataUrl, contractAddress, tokenId, providerUrl)
    ethereum,       \* TRUE iff window.ethereum exists (browser-injected wallet provider)
    metadata,       \* useState(null): Null or the fetched document
    assetUrl,       \* useState(''): the resolved asset URL
    error,          \* useState(null): NoError or a message
    effects,        \* the instances of the fetch effect, oldest first; the last one is current
    derivePending,  \* the [metadata] effect has been scheduled by a change of metadata and has not run
    metadataBy,     \* history: index of the effect instance whose completion wrote metadata (0: none)
    errorBy,        \* history: index of the effect instance whose catch wrote error (0: none)
    rendered,       \* the render paths mounted inside <Suspense> for the last render
    clipboard,      \* content of the system clipboard
    opened,         \* number of browsing contexts created by window.open
    url,            \* normalisation harness: the string being normalised
    once,           \* normalisation harness: result of the first application
    applied         \* number of applications of the function a harness applies

vars == <<props, ethereum, metadata, assetUrl, error, effects, derivePending,
          metadataBy, errorBy, rendered, clipboard, opened, url, once, applied>>

viewerVars == <<props, ethereum, metadata, assetUrl, error, effects, derivePending,
                metadataBy, errorBy, rendered, clipboard, opened>>

harnessVars == <<url, once, applied>>

----------------------------------------------------------------------------
(* Bounds *)

MaxEffects == 2     \* fetch-effect instances per behaviour (mount + input changes)
MaxOpened == 1      \* window.open calls per behaviour
MaxChunks == 3      \* fragments concatenated into an input string of the pure functions
MaxApplied == 2     \* applications of ipfsToHttp in the idempotence harness

----------------------------------------------------------------------------
(* Strings *)

Empty == << >>

IpfsScheme == <<"i","p","f","s",":","/","/">>
IpfsGateway == <<"h","t","t","p","s",":","/","/","i","p","f","s",".","i","o","/","i","p","f","s","/">>
IpfsPath == <<"i","p","f","s","/">>
Http == <<"h","t","t","p">>

\* String.prototype.startsWith
StartsWith(s, p) == Len(s) >= Len(p) /\ SubSeq(s, 1, Len(p)) = p

\* String.prototype.endsWith; the regex anchor  p$
EndsWith(s, p) == Len(s) >= Len(p) /\ SubSeq(s, Len(s) - Len(p) + 1, Len(s)) = p

\* p occurs in s starting at 1-based position i
OccursAt(s, p, i) == i >= 1 /\ i + Len(p) - 1 <= Len(s) /\ SubSeq(s, i, i + Len(p) - 1) = p

\* String.prototype.includes
Includes(s, p) == \E i \in 1..(Len(s) + 1) : OccursAt(s, p, i)

\* String.prototype.indexOf, 1-based; 0 when p does not occur
IndexOf(s, p) ==
    IF Includes(s, p)
    THEN CHOOSE i \in 1..(Len(s) + 1) :
            OccursAt(s, p, i) /\ \A j \in 1..(i - 1) : ~OccursAt(s, p, j)
    ELSE 0

\* String.prototype.replace(p, r) with a string pattern: the first occurrence only
ReplaceFirst(s, p, r) ==
    LET i == IndexOf(s, p) IN
    IF i = 0 THEN s
    ELSE SubSeq(s, 1, i - 1) \o r \o SubSeq(s, i + Len(p), Len(s))

\* the regex flag /i on the letters the patterns contain
LowerChar(c) ==
    CASE c = "G" -> "g" [] c = "L" -> "l" [] c = "B" -> "b" [] c = "T" -> "t"
      [] c = "F" -> "f" [] c = "P" -> "p" [] c = "N" -> "n" [] c = "J" -> "j"
      [] c = "E" -> "e" [] c = "W" -> "w" [] c = "M" -> "m" [] c = "O" -> "o"
      [] c = "D" -> "d" [] c = "I" -> "i" [] c = "A" -> "a"
      [] OTHER -> c

Lower(s) == [i \in 1..Len(s) |-> LowerChar(s[i])]

----------------------------------------------------------------------------
(* ipfsToHttp *)

\* A normaliser that strips the scheme instead of substituting the gateway.
ipfsToHttpStrip(u) ==
    IF u = Empty THEN u
    ELSE IF StartsWith(u, IpfsScheme) THEN ReplaceFirst(u, IpfsScheme, Empty)
    ELSE u

ipfsToHttp(u) ==
    IF u = Empty THEN u
    ELSE IF StartsWith(u, IpfsScheme) THEN ReplaceFirst(u, IpfsScheme, IpfsGateway)
    ELSE IF Includes(u, IpfsPath) /\ StartsWith(u, Http) THEN u
    ELSE u

----------------------------------------------------------------------------
(* Render dispatch *)

Dot(s) == <<".">> \o s

Gltf == <<"g","l","t","f">>
Glb == <<"g","l","b">>
Png == <<"p","n","g">>
Jpg == <<"j","p","g">>
Jpeg == <<"j","p","e","g">>
Webp == <<"w","e","b","p">>
ModelDir == <<"m","o","d","e","l","/">>
ImageDir == <<"i","m","a","g","e","/">>

\* model\/(.*)gltf : "model/" at some position and "gltf" anywhere after it
\* (the strings of the model contain no line terminator, which . would not match)
ModelHint(s) ==
    \E i \in 1..Len(s) : \E j \in 1..Len(s) :
        OccursAt(s, ModelDir, i) /\ j >= i + Len(ModelDir) /\ OccursAt(s, Gltf, j)

\* /\.gltf$|\.glb$|model\/(.*)gltf/i
MatchesModel(a) ==
    LET s == Lower(a) IN
    EndsWith(s, Dot(Gltf)) \/ EndsWith(s, Dot(Glb)) \/ ModelHint(s)

\* /\.png$|\.jpg$|\.jpeg$|\.webp$|image\//i
MatchesImage(a) ==
    LET s == Lower(a) IN
    \/ EndsWith(s, Dot(Png)) \/ EndsWith(s, Dot(Jpg))
    \/ EndsWith(s, Dot(Jpeg)) \/ EndsWith(s, Dot(Webp))
    \/ Includes(s, ImageDir)

\* /\.gltf$|\.glb$|\.png$|\.jpg$|\.jpeg$|\.webp$|image\//i
MatchesKnown(a) ==
    LET s == Lower(a) IN
    \/ EndsWith(s, Dot(Gltf)) \/ EndsWith(s, Dot(Glb))
    \/ EndsWith(s, Dot(Png)) \/ EndsWith(s, Dot(Jpg))
    \/ EndsWith(s, Dot(Jpeg)) \/ EndsWith(s, Dot(Webp))
    \/ Includes(s, ImageDir)

\* the three conditional children of <Suspense>, each guarded on its own
RenderPaths(a) ==
    (IF a # Empty /\ MatchesModel(a) THEN {"model"} ELSE {})
    \cup (IF a # Empty /\ MatchesImage(a) THEN {"image"} ELSE {})
    \cup (IF a # Empty /\ ~MatchesKnown(a) THEN {"embed"} ELSE {})

----------------------------------------------------------------------------
(* Metadata documents and the asset-location candidates *)

\* metadata === null.  A document is a function from the asset-location
\* field names it contains to their string values.
Null == [null |-> TRUE]

AnimationUrl == "animation_url"
Image == "image"
ImageUrl == "image_url"
Asset == "asset"
Animation == "animation"

\* candidates = [metadata.animation_url, metadata.image, metadata.image_url,
\*               metadata.asset, metadata.animation]
CandidateFields == <<AnimationUrl, Image, ImageUrl, Asset, Animation>>

\* The candidate order of the source comment ("image, animation_url, image_url").
ImageFirstFields == <<Image, AnimationUrl, ImageUrl, Asset, Animation>>

\* Boolean(metadata[f]): undefined (no such field) and '' are falsy
Truthy(doc, f) == f \in DOMAIN doc /\ doc[f] # Empty

\* order.find over the fields; Empty stands for the undefined result
FindFirst(doc, order) ==
    IF \E i \in 1..Len(order) : Truthy(doc, order[i])
    THEN LET k == CHOOSE i \in 1..Len(order) :
                    Truthy(doc, order[i]) /\ \A j \in 1..(i - 1) : ~Truthy(doc, order[j])
         IN doc[order[k]]
    ELSE Empty

FirstCandidateImageFirst(doc) == FindFirst(doc, ImageFirstFields)

\* const first = candidates.find(Boolean)
FirstCandidate(doc) == FindFirst(doc, CandidateFields)

----------------------------------------------------------------------------
(* Inputs of the viewer *)

MetadataUrls == {Empty, IpfsScheme \o <<"m">>}
ContractAddresses == {Empty, <<"0","x","C">>}
TokenIds == {Empty, <<"7">>}
ProviderUrls == {Empty, <<"r","p","c">>}

Props == [metadataUrl : MetadataUrls, contractAddress : ContractAddresses,
          tokenId : TokenIds, providerUrl : ProviderUrls]

\* what contract.tokenURI(tokenId) may resolve to
TokenUris == {IpfsScheme \o <<"t">>}

\* what axios.get may resolve to (res.data)
Docs == {
    [f \in {Image, AnimationUrl} |->
        IF f = Image THEN <<"a">> \o Dot(Png) ELSE <<"b">> \o Dot(Glb)],
    [f \in {AnimationUrl, Image} |->
        IF f = AnimationUrl THEN Empty ELSE IpfsScheme \o <<"c">>],
    [f \in {} |-> Empty] }

NoError == "null"
NoProviderMessage == "No provider available"
RpcMessage == "call revert exception"
NetworkMessage == "Network Error"

PriorClipboard == <<"x">>

----------------------------------------------------------------------------
(* The fetch effect, NFTViewer.jsx lines 77-128 *)

\* setMetadata(null); setAssetUrl(''); setError(null) without the asset URL
ResetKeepsAssetUrl(m, a, e) == [metadata |-> Null, assetUrl |-> a, error |-> NoError]

\* setMetadata(null); setAssetUrl(''); setError(null)
ResetState(m, a, e) == [metadata |-> Null, assetUrl |-> Empty, error |-> NoError]

\* A dispatch that prefers the contract lookup.
DispatchContractFirst(p) ==
    IF p.contractAddress # Empty /\ p.tokenId # Empty THEN "contract"
    ELSE IF p.metadataUrl # Empty THEN "url"
    ELSE "none"

\* if (metadataUrl) fetchFromMetadataUrl();
\* else if (contractAddress && tokenId) fetchFromContract();
Dispatch(p) ==
    IF p.metadataUrl # Empty THEN "url"
    ELSE IF p.contractAddress # Empty /\ p.tokenId # Empty THEN "contract"
    ELSE "none"

\* A provider selection that falls back to the injected provider unconditionally.
SelectProviderNoCheck(p, eth) ==
    IF p.providerUrl # Empty THEN "JsonRpcProvider" ELSE "Web3Provider"

\* providerUrl, else window.ethereum, else throw
SelectProvider(p, eth) ==
    IF p.providerUrl # Empty THEN "JsonRpcProvider"
    ELSE IF eth THEN "Web3Provider"
    ELSE "throw"

\* The synchronous part of fetchFromMetadataUrl: up to the await of axios.get
StartMetadataUrl(p) ==
    IF p.metadataUrl = Empty
    THEN [props |-> p, path |-> "url", cancelled |-> FALSE, pc |-> "done",
          rpcCalls |-> 0, httpCalls |-> 0, getUrl |-> Empty, threw |-> FALSE]
    ELSE [props |-> p, path |-> "url", cancelled |-> FALSE, pc |-> "get",
          rpcCalls |-> 0, httpCalls |-> 1, getUrl |-> ipfsToHttp(p.metadataUrl),
          threw |-> FALSE]

\* The synchronous part of fetchFromContract: up to the await of contract.tokenURI,
\* or to the catch when no provider is available
StartContract(p, eth) ==
    IF p.contractAddress = Empty \/ p.tokenId = Empty
    THEN [props |-> p, path |-> "contract", cancelled |-> FALSE, pc |-> "done",
          rpcCalls |-> 0, httpCalls |-> 0, getUrl |-> Empty, threw |-> FALSE]
    ELSE IF SelectProvider(p, eth) = "throw"
    THEN [props |-> p, path |-> "contract", cancelled |-> FALSE, pc |-> "done",
          rpcCalls |-> 0, httpCalls |-> 0, getUrl |-> Empty, threw |-> TRUE]
    ELSE [props |-> p, path |-> "contract", cancelled |-> FALSE, pc |-> "rpc",
          rpcCalls |-> 1, httpCalls |-> 0, getUrl |-> Empty, threw |-> FALSE]

\* The effect instance the body of the fetch effect creates for props p
StartEffect(p, eth) ==
    CASE Dispatch(p) = "url" -> StartMetadataUrl(p)
      [] Dispatch(p) = "contract" -> StartContract(p, eth)
      [] OTHER -> [props |-> p, path |-> "none", cancelled |-> FALSE, pc |-> "done",
                   rpcCalls |-> 0, httpCalls |-> 0, getUrl |-> Empty, threw |-> FALSE]

\* return () => { cancelled = true; } of the previous instance
Cleanup(es) ==
    [i \in DOMAIN es |-> IF i = Len(es) THEN [es[i] EXCEPT !.cancelled = TRUE] ELSE es[i]]

\* One run of the fetch effect with props p: the cleanup of the previous
\* instance, the reset, and the synchronous part of the fetch it starts.
\* The state updates of one effect run are batched into one render.
FetchEffect(p) ==
    LET r == ResetState(metadata, assetUrl, error)
        e == StartEffect(p, ethereum)
    IN /\ effects' = Append(Cleanup(effects), e)
       /\ metadata' = r.metadata
       /\ assetUrl' = r.assetUrl
       /\ error' = IF e.threw THEN NoProviderMessage ELSE r.error
       /\ errorBy' = IF e.threw THEN Len(effects) + 1 ELSE 0
       /\ metadataBy' = 0
       /\ derivePending' = (metadata' # metadata)
       /\ rendered' = RenderPaths(assetUrl')

\* First commit of the component: the fetch effect runs with the initial props
\* (the [metadata] effect also runs, and returns at once since metadata is null)
Mount ==
    /\ effects = << >>
    /\ FetchEffect(props)
    /\ UNCHANGED <<props, ethereum, clipboard, opened>>
    /\ UNCHANGED harnessVars

\* A re-render with a change in one of the dependencies
\* [metadataUrl, contractAddress, tokenId, providerUrl]
ChangeProps ==
    /\ effects # << >>
    /\ ~derivePending
    /\ Len(effects) < MaxEffects
    /\ \E p \in Props :
        /\ p # props
        /\ props' = p
        /\ FetchEffect(p)
    /\ UNCHANGED <<ethereum, clipboard, opened>>
    /\ UNCHANGED harnessVars

\* await contract.tokenURI(tokenId) resolves: ipfsToHttp(uri), then axios.get(fixed)
TokenUriResolves ==
    /\ ~derivePending
    /\ \E i \in DOMAIN effects : \E uri \in TokenUris :
        /\ effects[i].pc = "rpc"
        /\ effects' = [effects EXCEPT ![i].pc = "get",
                                      ![i].httpCalls = @ + 1,
                                      ![i].getUrl = ipfsToHttp(uri)]
    /\ UNCHANGED <<props, ethereum, metadata, assetUrl, error, derivePending,
                   metadataBy, errorBy, rendered, clipboard, opened>>
    /\ UNCHANGED harnessVars

\* await contract.tokenURI(tokenId) rejects: catch (err) { setError(err.message) }
TokenUriRejects ==
    /\ ~derivePending
    /\ \E i \in DOMAIN effects :
        /\ effects[i].pc = "rpc"
        /\ effects' = [effects EXCEPT ![i].pc = "done"]
        /\ error' = RpcMessage
        /\ errorBy' = i
    /\ UNCHANGED <<props, ethereum, metadata, assetUrl, derivePending,
                   metadataBy, rendered, clipboard, opened>>
    /\ UNCHANGED harnessVars

\* await axios.get(fixed) resolves: if (cancelled) return; setMetadata(res.data)
GetResolves ==
    /\ ~derivePending
    /\ \E i \in DOMAIN effects : \E doc \in Docs :
        /\ effects[i].pc = "get"
        /\ effects' = [effects EXCEPT ![i].pc = "done"]
        /\ IF effects[i].cancelled
           THEN UNCHANGED <<metadata, metadataBy, derivePending>>
           ELSE /\ metadata' = doc
                /\ metadataBy' = i
                /\ derivePending' = TRUE
    /\ UNCHANGED <<props, ethereum, assetUrl, error, errorBy, rendered, clipboard, opened>>
    /\ UNCHANGED harnessVars

\* await axios.get(fixed) rejects: catch (err) { setError(err.message) }
GetRejects ==
    /\ ~derivePending
    /\ \E i \in DOMAIN effects :
        /\ effects[i].pc = "get"
        /\ effects' = [effects EXCEPT ![i].pc = "done"]
        /\ error' = NetworkMessage
        /\ errorBy' = i
    /\ UNCHANGED <<props, ethereum, metadata, assetUrl, derivePending,
                   metadataBy, rendered, clipboard, opened>>
    /\ UNCHANGED harnessVars

----------------------------------------------------------------------------
(* The asset-derivation effect, NFTViewer.jsx lines 130-136 *)

\* runs after the commit of a render in which metadata changed
DeriveAsset ==
    /\ derivePending
    /\ derivePending' = FALSE
    /\ LET first == IF metadata = Null THEN Empty ELSE FirstCandidate(metadata) IN
       assetUrl' = IF first # Empty THEN ipfsToHttp(first) ELSE assetUrl
    /\ rendered' = RenderPaths(assetUrl')
    /\ UNCHANGED <<props, ethereum, metadata, error, effects, metadataBy, errorBy,
                   clipboard, opened>>
    /\ UNCHANGED harnessVars

----------------------------------------------------------------------------
(* Quick actions, NFTViewer.jsx lines 202-203 *)

\* navigator.clipboard?.writeText(assetUrl || '')
\* (api = FALSE: navigator.clipboard is undefined and the call is skipped)
CopyAssetUrl ==
    /\ effects # << >>
    /\ \E api \in BOOLEAN :
        clipboard' = IF api THEN (IF assetUrl # Empty THEN assetUrl ELSE Empty)
                     ELSE clipboard
    /\ clipboard' # clipboard
    /\ UNCHANGED <<props, ethereum, metadata, assetUrl, error, effects, derivePending,
                   metadataBy, errorBy, rendered, opened>>
    /\ UNCHANGED harnessVars

\* window.open(assetUrl, '_blank')
OpenAsset ==
    /\ effects # << >>
    /\ opened < MaxOpened
    /\ opened' = opened + 1
    /\ UNCHANGED <<props, ethereum, metadata, assetUrl, error, effects, derivePending,
                   metadataBy, errorBy, rendered, clipboard>>
    /\ UNCHANGED harnessVars

----------------------------------------------------------------------------
(* The viewer *)

Init ==
    /\ props \in Props
    /\ ethereum \in BOOLEAN
    /\ metadata = Null
    /\ assetUrl = Empty
    /\ error = NoError
    /\ effects = << >>
    /\ derivePending = FALSE
    /\ metadataBy = 0
    /\ errorBy = 0
    /\ rendered = {}
    /\ clipboard = PriorClipboard
    /\ opened = 0
    /\ url = Empty
    /\ once = Empty
    /\ applied = 0

Next ==
    \/ Mount
    \/ ChangeProps
    \/ TokenUriResolves
    \/ TokenUriRejects
    \/ GetResolves
    \/ GetRejects
    \/ DeriveAsset
    \/ CopyAssetUrl
    \/ OpenAsset

Spec == Init /\ [][Next]_vars

----------------------------------------------------------------------------
(* Input strings of the pure functions: concatenations of fragments *)

RECURSIVE Concats(_, _)
Concats(fragments, n) ==
    IF n = 0 THEN {Empty}
    ELSE LET shorter == Concats(fragments, n - 1) IN
         shorter \cup {s \o f : s \in shorter, f \in fragments}

NormalizeFragments ==
    {IpfsScheme, IpfsGateway, IpfsPath, Http \o <<":","/","/">>, <<"a">>}

ClassifyFragments ==
    {ModelDir, Gltf, Dot(Glb), ImageDir, Dot(<<"P","N","G">>), Dot(Jpeg),
     <<"a">>, Dot(<<"G","L","T","F">>)}

DefaultProps ==
    [metadataUrl |-> Empty, contractAddress |-> Empty, tokenId |-> Empty,
     providerUrl |-> Empty]

\* The viewer before its first commit, with the default props
Unmounted ==
    /\ props = DefaultProps
    /\ ethereum = FALSE
    /\ metadata = Null
    /\ assetUrl = Empty
    /\ error = NoError
    /\ effects = << >>
    /\ derivePending = FALSE
    /\ metadataBy = 0
    /\ errorBy = 0
    /\ rendered = {}
    /\ clipboard = PriorClipboard
    /\ opened = 0

----------------------------------------------------------------------------
(* ipfsToHttp applied repeatedly to one string *)

InitNormalize ==
    /\ Unmounted
    /\ url \in Concats(NormalizeFragments, MaxChunks)
    /\ once = Empty
    /\ applied = 0

Normalize ==
    /\ applied < MaxApplied
    /\ url' = ipfsToHttp(url)
    /\ once' = IF applied = 0 THEN url' ELSE once
    /\ applied' = applied + 1
    /\ UNCHANGED viewerVars

NextNormalize == Normalize

SpecNormalize == InitNormalize /\ [][NextNormalize]_vars

----------------------------------------------------------------------------
(* The render dispatch applied to one asset URL *)

InitClassify ==
    /\ props = DefaultProps
    /\ ethereum = FALSE
    /\ metadata = Null
    /\ assetUrl \in Concats(ClassifyFragments, MaxChunks)
    /\ error = NoError
    /\ effects = << >>
    /\ derivePending = FALSE
    /\ metadataBy = 0
    /\ errorBy = 0
    /\ rendered = {}
    /\ clipboard = PriorClipboard
    /\ opened = 0
    /\ url = Empty
    /\ once = Empty
    /\ applied = 0

\* one evaluation of the JSX of lines 160-183 with the current assetUrl
Render ==
    /\ applied = 0
    /\ applied' = 1
    /\ rendered' = RenderPaths(assetUrl)
    /\ UNCHANGED <<props, ethereum, metadata, assetUrl, error, effects, derivePending,
                   metadataBy, errorBy, clipboard, opened, url, once>>

NextClassify == Render

SpecClassify == InitClassify /\ [][NextClassify]_vars

----------------------------------------------------------------------------
(* The asset-derivation effect applied to one fetched document *)

FieldValues == {Empty, IpfsScheme \o <<"q">>, <<"b">> \o Dot(Glb)}

FieldNames == {CandidateFields[i] : i \in 1..Len(CandidateFields)}

AllDocs == UNION {[d -> FieldValues] : d \in SUBSET FieldNames}

DirectProps ==
    [metadataUrl |-> IpfsScheme \o <<"m">>, contractAddress |-> Empty,
     tokenId |-> Empty, providerUrl |-> Empty]

\* the state right after the first request's axios.get resolved with a document
InitDerive ==
    /\ props = DirectProps
    /\ ethereum = FALSE
    /\ metadata \in AllDocs
    /\ assetUrl = Empty
    /\ error = NoError
    /\ effects = << [StartMetadataUrl(DirectProps) EXCEPT !.pc = "done"] >>
    /\ derivePending = TRUE
    /\ metadataBy = 1
    /\ errorBy = 0
    /\ rendered = {}
    /\ clipboard = PriorClipboard
    /\ opened = 0
    /\ url = Empty
    /\ once = Empty
    /\ applied = 0

NextDerive == DeriveAsset

SpecDerive == InitDerive /\ [][NextDerive]_vars

----------------------------------------------------------------------------
(* Properties *)

Current == Len(effects)

InFlight(e) == e.pc \in {"rpc", "get"}

\* C1: the completion (resolution or rejection) of a fetch whose effect
\* instance has been cancelled writes nothing: metadata, assetUrl and error
\* are left as they were.
StaleCompletionWritesNothing ==
    [][\A i \in DOMAIN effects :
          (effects[i].cancelled /\ InFlight(effects[i]) /\ effects'[i].pc = "done")
              => UNCHANGED <<metadata, assetUrl, error>>]_vars

ExactlyOneRenderPath ==
    (applied = 1 /\ assetUrl # Empty) => Cardinality(rendered) = 1

\* C4: a request with a metadataUrl takes the direct-URL path and issues no
\* tokenURI call; the contract path is taken only without a metadataUrl and with
\* both contractAddress and tokenId; every other request issues no call at all.
AcquisitionPriority ==
    \A i \in DOMAIN effects :
        LET e == effects[i]
            p == e.props
            direct == p.metadataUrl # Empty
            lookup == p.metadataUrl = Empty /\ p.contractAddress # Empty /\ p.tokenId # Empty
        IN /\ direct => (e.path = "url" /\ e.rpcCalls = 0)
           /\ (e.path = "contract" \/ e.rpcCalls > 0) => lookup
           /\ (~direct /\ ~lookup) => (e.rpcCalls = 0 /\ e.httpCalls = 0 /\ e.pc = "done")

\* C4 witness: a request with metadataUrl, contractAddress and tokenId all set
\* has completed over the direct-URL path.
DirectPathWithContractSet ==
    \E i \in DOMAIN effects :
        /\ effects[i].props.metadataUrl # Empty
        /\ effects[i].props.contractAddress # Empty
        /\ effects[i].props.tokenId # Empty
        /\ effects[i].pc = "done"
        /\ effects[i].httpCalls = 1

\* C5: metadata and error are never both present.
MetadataAndErrorExclusive ==
    ~(metadata # Null /\ error # NoError)

\* C6: while the current request is in progress, no metadata, asset URL or
\* error of an earlier request is held.
NothingOfPreviousRequestRemains ==
    (effects # << >> /\ InFlight(effects[Current])) =>
        /\ metadata = Null
        /\ assetUrl = Empty
        /\ error # NoError => errorBy = Current

\* C7: a contract lookup with no providerUrl and no injected provider issues
\* neither the tokenURI call nor the GET; while it is the current request,
\* metadata is absent and an error is held, and the error this request recorded
\* is the no-provider error.
NoProviderFails ==
    \A i \in DOMAIN effects :
        LET e == effects[i]
            p == e.props
        IN (/\ p.metadataUrl = Empty /\ p.contractAddress # Empty /\ p.tokenId # Empty
            /\ p.providerUrl = Empty /\ ~ethereum)
           => /\ e.rpcCalls = 0 /\ e.httpCalls = 0 /\ e.pc = "done"
              /\ i = Current => (metadata = Null /\ error # NoError /\ errorBy # 0)
              /\ errorBy = i => error = NoProviderMessage

\* C7 witness: the current request is a contract lookup without any provider
\* and the no-provider error is held.
NoProviderErrorHeld ==
    /\ effects # << >>
    /\ effects[Current].path = "contract"
    /\ effects[Current].props.providerUrl = Empty
    /\ ~ethereum
    /\ errorBy = Current
    /\ error = NoProviderMessage

\* the value of field f of doc, Empty if doc has no such field
FieldOr(doc, f) == IF f \in DOMAIN doc THEN doc[f] ELSE Empty

\* the first field of doc, in the documented priority order, that is non-empty
FirstNonEmptyField(doc) ==
    IF FieldOr(doc, AnimationUrl) # Empty THEN doc[AnimationUrl]
    ELSE IF FieldOr(doc, Image) # Empty THEN doc[Image]
    ELSE IF FieldOr(doc, ImageUrl) # Empty THEN doc[ImageUrl]
    ELSE IF FieldOr(doc, Asset) # Empty THEN doc[Asset]
    ELSE IF FieldOr(doc, Animation) # Empty THEN doc[Animation]
    ELSE Empty

\* the first field of doc, in the documented priority order, that doc contains
FirstPresentField(doc) ==
    IF AnimationUrl \in DOMAIN doc THEN doc[AnimationUrl]
    ELSE IF Image \in DOMAIN doc THEN doc[Image]
    ELSE IF ImageUrl \in DOMAIN doc THEN doc[ImageUrl]
    ELSE IF Asset \in DOMAIN doc THEN doc[Asset]
    ELSE IF Animation \in DOMAIN doc THEN doc[Animation]
    ELSE Empty

\* C8 (as stated): once the derivation has run, the asset URL is the normalized
\* value of the first present field in the order animation_url > image >
\* image_url > asset > animation, and empty when none is present.
AssetUrlIsFirstPresentField ==
    (metadata # Null /\ ~derivePending) =>
        assetUrl = ipfsToHttp(FirstPresentField(metadata))

\* C8 (amended): once the derivation has run, the asset URL is the normalized
\* value of the first field, in the order animation_url > image > image_url >
\* asset > animation, whose value is a non-empty string, and empty when there
\* is none.
AssetUrlIsFirstNonEmptyField ==
    (metadata # Null /\ ~derivePending) =>
        assetUrl = ipfsToHttp(FirstNonEmptyField(metadata))

\* C8 witness: image and animation_url are both non-empty and differ, and the
\* derived asset URL is the normalized animation_url.
AnimationUrlChosenOverImage ==
    /\ metadata # Null /\ ~derivePending
    /\ FieldOr(metadata, Image) # Empty
    /\ FieldOr(metadata, AnimationUrl) # Empty
    /\ metadata[Image] # metadata[AnimationUrl]
    /\ assetUrl = ipfsToHttp(metadata[AnimationUrl])
    /\ assetUrl # ipfsToHttp(metadata[Image])

\* C9: normalizing a normalized string changes nothing.
NormalizeIdempotent ==
    applied >= 1 => url = once

\* C9 witness: a string starting with ipfs:// and containing ipfs:// again has
\* been normalized twice.
DoubleSchemeNormalizedTwice ==
    /\ applied = 2
    /\ StartsWith(once, IpfsGateway \o IpfsScheme)

\* C10: with an empty assetUrl, no step changes the clipboard or creates a
\* browsing context.
PanelActionsNoOpWhenEmpty ==
    [][assetUrl = Empty => (clipboard' = clipboard /\ opened' = opened)]_vars

====
